---------------------------- MODULE Spec2Model ----------------------------
(***************************************************************************)
(* Incremental ingestion pipeline of masafm/jquants.                       *)
(*                                                                         *)
(*   src/jquants_step1_2.py  quotes pipeline: retry phase + forward phase  *)
(*   src/jquants_step3.py    full pipeline: quotes phase + financials phase*)
(*                                                                         *)
(* Calendar dates are the integers 1..MaxDate (the ISO text 'YYYY-MM-DD'   *)
(* the code stores orders exactly as the dates do).  A table is the set of *)
(* its committed rows; the rows a connection has written and not committed *)
(* are kept apart.  The remote endpoint is an input: for one fetch it is   *)
(* the list of pages it serves and the request (if any) that raises.       *)
(***************************************************************************)
EXTENDS Integers, Sequences, FiniteSets, TLC

VARIABLES
    daily_quotes_raw,        \* archive of quotes, PRIMARY KEY (Date, Code)
    daily_quotes,            \* normalized quotes, PRIMARY KEY (Date, Code)
    failed_dates,            \* quotes retry ledger, PRIMARY KEY Date
    financials_raw,          \* archive of statements, PRIMARY KEY (DisclosedDate, LocalCode)
    financials,              \* normalized statements, same key
    financial_failed_dates,  \* statements retry ledger, PRIMARY KEY DisclosedDate
    pending,                 \* rows written on the open connection and not committed
    today,                   \* date.today() of the current run
    pc,                      \* position of the running script
    todo,                    \* the dates the current loop has still to visit
    atStart,                 \* history: the two ledgers when the current run started
    log,                     \* history: <<phase, date>> of every fetch of the current run
    last,                    \* history: the last unit of a run and the ledger entry it found
    call,                    \* history: the last direct call of a fetcher (SpecFetch)
    candidates,              \* what select_stocks.py lists
    streak,                  \* history: per dataset and date, consecutive failed fetches
    prev                     \* history: summary of the previous run

vars == << daily_quotes_raw, daily_quotes, failed_dates, financials_raw, financials,
           financial_failed_dates, pending, today, pc, todo, candidates, atStart, log,
           last, call, streak, prev >>

store == << daily_quotes_raw, daily_quotes, failed_dates, financials_raw, financials,
            financial_failed_dates >>

-----------------------------------------------------------------------------
(* Bounds of the model.                                                    *)

MaxDate == 3
MaxPages == 2
MaxCount == 2
MaxStreak == 2

(* Program constants.                                                      *)

MAX_RETRY == 3

Dates == 1..MaxDate
Min(a, b) == IF a < b THEN a ELSE b

RECURSIVE Flatten(_)
Flatten(s) == IF s = <<>> THEN <<>> ELSE Head(s) \o Flatten(Tail(s))

Range(s) == { s[i] : i \in DOMAIN s }

-----------------------------------------------------------------------------
(* Records of the remote source.                                           *)

\* One element of "daily_quotes": its key fields and one value field.
Quote(d, c, v) == [Date |-> d, Code |-> c, Close |-> v]

\* One element of "statements"; the value field has a name that is no legal
\* column identifier.
Statement(d, c, v) ==
    ("DisclosedDate" :> d) @@ ("LocalCode" :> c) @@ ("DistributionsPerUnit(REIT)" :> v)

\* A record of dataset ds as its endpoint returns it.
Record(ds, d, c, v) == IF ds = "fin" THEN Statement(d, c, v) ELSE Quote(d, c, v)

\* A record that carries one more field, which no table declares.
Extended(rec) == rec @@ ("Remarks" :> "x")

\* The columns CREATE TABLE daily_quotes / financials declare, of the fields
\* the records above carry.
QuoteColumns == {"Date", "Code", "Close"}
FinColumns == {"DisclosedDate", "LocalCode", "DistributionsPerUnit_REIT"}

FIN_COL_MAP ==
    ("DistributionsPerUnit(REIT)" :> "DistributionsPerUnit_REIT")
    @@ ("ForecastDistributionsPerUnit(REIT)" :> "ForecastDistributionsPerUnit_REIT")
    @@ ("NextYearForecastDistributionsPerUnit(REIT)" :> "NextYearForecastDistributionsPerUnit_REIT")

\* FIN_COL_MAP.get(k, k)
SafeCol(k) == IF k \in DOMAIN FIN_COL_MAP THEN FIN_COL_MAP[k] ELSE k

\* The row INSERTed into financials: one column per field, renamed.
FinRow(s) ==
    [ col \in { SafeCol(k) : k \in DOMAIN s } |->
        s[CHOOSE k \in DOMAIN s : SafeCol(k) = col] ]

\* gzip.compress(json.dumps(q).encode()): the payload determines the record.
Compress(q) == << "gzip", q >>

\* INSERT INTO t (cols) VALUES (...) is prepared only when t declares every
\* column it names; otherwise execute raises sqlite3.OperationalError.
Insertable(row, columns) == DOMAIN row \subseteq columns

\* A plain insert that does not look at the key.
InsertAlways(table, row, k1, k2) == table \cup {row}

\* INSERT OR REPLACE: the row takes the place of the one with its key.
InsertOrReplace(table, row, k1, k2) ==
    { r \in table : ~(r[k1] = row[k1] /\ r[k2] = row[k2]) } \cup {row}

\* INSERT OR IGNORE under PRIMARY KEY (k1, k2): the row is added unless a row
\* with its key is there.
InsertOrIgnore(table, row, k1, k2) ==
    IF \E r \in table : r[k1] = row[k1] /\ r[k2] = row[k2]
    THEN table
    ELSE table \cup {row}

------------------------------------------------------------------------\* The keys of the rows of a table, and PRIMARY KEY (k1, k2).
KeysOf(table, k1, k2) == { << r[k1], r[k2] >> : r \in table }

UniqueKey(table, k1, k2) == Cardinality(KeysOf(table, k1, k2)) = Cardinality(table)

-----------------------------------------------------------------------------
(* Paginated fetchers.  db is the store as the connection sees it, [raw,   *)
(* norm], with the committed tables in db.disk; pages is what the endpoint *)
(* serves (page i carries a pagination_key iff i < Len(pages)); failAt is  *)
(* the request that raises (0: none).  The result says how the call ended: *)
(* raised is "" (returned), "transport" or "storage".                      *)

\* A connection that never commits.
NoCommit(db) == db

\* conn.commit()
Commit(db) == [db EXCEPT !.disk = [raw |-> db.raw, norm |-> db.norm]]

\* The body of "for q in quotes" of both quotes fetchers: the second INSERT
\* raises when q has a field that daily_quotes does not declare.
WriteQuote(db, q) ==
    LET raw2 == InsertOrIgnore(db.raw,
                    [Date |-> q.Date, Code |-> q.Code, payload |-> Compress(q)],
                    "Date", "Code")
    IN  IF Insertable(q, QuoteColumns)
        THEN [db EXCEPT !.raw = raw2, !.norm = InsertOrIgnore(db.norm, q, "Date", "Code")]
        ELSE [db EXCEPT !.raw = raw2]

\* The body of "for s in data.get('statements', [])".
WriteStatement(db, s) ==
    LET raw2 == InsertOrIgnore(db.raw,
                    [DisclosedDate |-> s["DisclosedDate"], LocalCode |-> s["LocalCode"],
                     payload |-> Compress(s)],
                    "DisclosedDate", "LocalCode")
    IN  IF Insertable(FinRow(s), FinColumns)
        THEN [db EXCEPT !.raw = raw2,
                        !.norm = InsertOrIgnore(db.norm, FinRow(s), "DisclosedDate", "LocalCode")]
        ELSE [db EXCEPT !.raw = raw2]

\* Some record of the page makes its INSERT into the normalized table raise.
QuotesRaise(quotes) == \E i \in DOMAIN quotes : ~Insertable(quotes[i], QuoteColumns)

StatementsRaise(stmts) == \E i \in DOMAIN stmts : ~Insertable(FinRow(stmts[i]), FinColumns)

\* "for q in quotes", up to and with the record whose INSERT raises.
RECURSIVE WriteQuotes(_, _)
WriteQuotes(db, quotes) ==
    IF quotes = <<>> THEN db
    ELSE IF ~Insertable(Head(quotes), QuoteColumns) THEN WriteQuote(db, Head(quotes))
    ELSE WriteQuotes(WriteQuote(db, Head(quotes)), Tail(quotes))

RECURSIVE WriteStatements(_, _)
WriteStatements(db, stmts) ==
    IF stmts = <<>> THEN db
    ELSE IF ~Insertable(FinRow(Head(stmts)), FinColumns) THEN WriteStatement(db, Head(stmts))
    ELSE WriteStatements(WriteStatement(db, Head(stmts)), Tail(stmts))

\* The number of records of the page the loop went through without raising.
RECURSIVE Written(_)
Written(quotes) ==
    IF quotes = <<>> \/ ~Insertable(Head(quotes), QuoteColumns) THEN 0
    ELSE 1 + Written(Tail(quotes))

\* A function without a return statement returns None.
None == -1

\* The "while True" of fetch_one_day from request i on.
RECURSIVE FetchLoop12(_, _, _, _, _)
FetchLoop12(db, pages, failAt, i, saved) ==
    IF failAt = i
    THEN [db |-> db, ok |-> FALSE, raised |-> "transport", saved |-> saved, requests |-> i,
          commits |-> i - 1]
    ELSE LET quotes == pages[i]
             pagination_key == i < Len(pages)
             db2 == WriteQuotes(db, quotes)
         IN  IF quotes = <<>>
             THEN [db |-> db, ok |-> TRUE, raised |-> "", saved |-> saved, requests |-> i,
                   commits |-> i - 1]
             ELSE IF QuotesRaise(quotes)
             THEN [db |-> db2, ok |-> FALSE, raised |-> "storage",
                   saved |-> saved + Written(quotes), requests |-> i, commits |-> i - 1]
             ELSE IF ~pagination_key
             THEN [db |-> Commit(db2), ok |-> TRUE, raised |-> "",
                   saved |-> saved + Len(quotes), requests |-> i, commits |-> i]
             ELSE FetchLoop12(Commit(db2), pages, failAt, i + 1, saved + Len(quotes))

fetch_one_day(db, pages, failAt) == FetchLoop12(db, pages, failAt, 1, 0)

\* The "while True" of fetch_daily_quotes_one_day from request i on.
RECURSIVE FetchLoopQ3(_, _, _, _)
FetchLoopQ3(db, pages, failAt, i) ==
    IF failAt = i
    THEN [db |-> db, ok |-> FALSE, raised |-> "transport", saved |-> None, requests |-> i,
          commits |-> i - 1]
    ELSE LET pagination_key == i < Len(pages)
             db2 == WriteQuotes(db, pages[i])
         IN  IF QuotesRaise(pages[i])
             THEN [db |-> db2, ok |-> FALSE, raised |-> "storage", saved |-> None,
                   requests |-> i, commits |-> i - 1]
             ELSE IF ~pagination_key
             THEN [db |-> Commit(db2), ok |-> TRUE, raised |-> "", saved |-> None,
                   requests |-> i, commits |-> i]
             ELSE FetchLoopQ3(Commit(db2), pages, failAt, i + 1)

fetch_daily_quotes_one_day(db, pages, failAt) == FetchLoopQ3(db, pages, failAt, 1)

\* The "while True" of fetch_financials_one_day from request i on.
RECURSIVE FetchLoopF3(_, _, _, _)
FetchLoopF3(db, pages, failAt, i) ==
    IF failAt = i
    THEN [db |-> db, ok |-> FALSE, raised |-> "transport", saved |-> None, requests |-> i,
          commits |-> i - 1]
    ELSE LET pagination_key == i < Len(pages)
             db2 == WriteStatements(db, pages[i])
         IN  IF StatementsRaise(pages[i])
             THEN [db |-> db2, ok |-> FALSE, raised |-> "storage", saved |-> None,
                   requests |-> i, commits |-> i - 1]
             ELSE IF ~pagination_key
             THEN [db |-> Commit(db2), ok |-> TRUE, raised |-> "", saved |-> None,
                   requests |-> i, commits |-> i]
             ELSE FetchLoopF3(Commit(db2), pages, failAt, i + 1)

fetch_financials_one_day(db, pages, failAt) == FetchLoopF3(db, pages, failAt, 1)

-----------------------------------------------------------------------------
(* History records.                                                        *)

NoDb == [raw |-> {}, norm |-> {}]

NoPending == [quotes |-> NoDb, fin |-> NoDb]

NoLast ==
    [phase |-> "none", date |-> 0, ok |-> FALSE, err |-> "", entry |-> {}, got |-> <<>>]

NoCall ==
    [ fn |-> "none", date |-> 0, pages |-> <<>>, failAt |-> 0, before |-> NoDb,
      ok |-> FALSE, raised |-> "", saved |-> 0, requests |-> 0, left |-> NoDb ]

NoLedgers == [quotes |-> {}, fin |-> {}]

NoPrev == [ran |-> FALSE, today |-> 0, allOK |-> FALSE]

InitStore ==
    /\ daily_quotes_raw = {}
    /\ daily_quotes = {}
    /\ failed_dates = {}
    /\ financials_raw = {}
    /\ financials = {}
    /\ financial_failed_dates = {}
    /\ pending = NoPending

InitHistory ==
    /\ candidates = {}
    /\ atStart = NoLedgers
    /\ log = <<>>
    /\ last = NoLast
    /\ call = NoCall
    /\ streak = [ds \in {"quotes", "fin"} |-> [d \in Dates |-> -1]]
    /\ prev = NoPrev

-----------------------------------------------------------------------------
(* The store as the open connection sees it.                               *)

\* The committed tables of each dataset.
QuotesDb == [raw |-> daily_quotes_raw, norm |-> daily_quotes]
FinDb == [raw |-> financials_raw, norm |-> financials]

\* What cur.execute reads and writes: the committed rows and the pending ones.
QuotesConn ==
    [ raw  |-> daily_quotes_raw \cup pending.quotes.raw,
      norm |-> daily_quotes \cup pending.quotes.norm,
      disk |-> QuotesDb ]

FinConn ==
    [ raw  |-> financials_raw \cup pending.fin.raw,
      norm |-> financials \cup pending.fin.norm,
      disk |-> FinDb ]

\* The rows a connection has written and not committed.
Left(db) == [raw |-> db.raw \ db.disk.raw, norm |-> db.norm \ db.disk.norm]

-----------------------------------------------------------------------------
(* SpecFetch: the three paginated fetchers called on their own, on every   *)
(* page list of at most MaxPages pages over PageChoices.  As at every call *)
(* site, the handler of the caller commits before the next call.           *)

FetchDates == {1}

\* The pages the endpoint of dataset ds may serve for date d.
PageChoices(ds, d) ==
    { <<>>,
      << Record(ds, d, "1301", "a"), Record(ds, d, "1332", "a") >>,
      << Record(ds, d, "1301", "b") >>,
      << Record(ds, d, "1333", "a") >>,
      << Record(ds, d, "1333", "a"), Extended(Record(ds, d, "1334", "a")) >> }

RECURSIVE PageLists(_, _)
PageLists(choices, n) ==
    IF n = 0 THEN { <<>> }
    ELSE LET shorter == PageLists(choices, n - 1)
         IN  shorter \cup { <<p>> \o s : p \in choices, s \in { t \in shorter : Len(t) = n - 1 } }

\* Every non-empty page list with the request that raises (0: none).
Served(ds, d) ==
    { [pages |-> ps, failAt |-> k] :
        ps \in PageLists(PageChoices(ds, d), MaxPages) \ { <<>> }, k \in 0..MaxPages }

FetchFns == {"fetch_one_day", "fetch_daily_quotes_one_day", "fetch_financials_one_day"}

InitFetch ==
    /\ InitStore
    /\ InitHistory
    /\ today \in FetchDates
    /\ pc \in FetchFns
    /\ todo = <<>>

\* What a direct call leaves in the history.
Called(fn, d, inp, db, res) ==
    [ fn |-> fn, date |-> d, pages |-> inp.pages, failAt |-> inp.failAt, before |-> db,
      ok |-> res.ok, raised |-> res.raised, saved |-> res.saved, requests |-> res.requests,
      left |-> Left(res.db) ]

\* What a unit of a run leaves in the history.
Unit(phase, d, res, inp, entry) ==
    [phase |-> phase, date |-> d, ok |-> res.ok, err |-> IF res.ok THEN "" ELSE inp.err,
     entry |-> entry, got |-> inp.pages]

CallFetchOneDay ==
    /\ pc = "fetch_one_day"
    /\ pending = NoPending
    /\ \E d \in FetchDates : \E inp \in Served("quotes", d) :
         /\ inp.failAt <= Len(inp.pages)
         /\ LET res == fetch_one_day(QuotesConn, inp.pages, inp.failAt)
            IN  /\ daily_quotes_raw' = res.db.disk.raw
                /\ daily_quotes' = res.db.disk.norm
                /\ pending' = [pending EXCEPT !.quotes = Left(res.db)]
                /\ call' = Called("fetch_one_day", d, inp, QuotesDb, res)
    /\ UNCHANGED << candidates, failed_dates, financials_raw, financials, financial_failed_dates,
                    today, pc, todo, atStart, log, last, streak, prev >>

CallFetchDailyQuotes ==
    /\ pc = "fetch_daily_quotes_one_day"
    /\ pending = NoPending
    /\ \E d \in FetchDates : \E inp \in Served("quotes", d) :
         /\ inp.failAt <= Len(inp.pages)
         /\ LET res == fetch_daily_quotes_one_day(QuotesConn, inp.pages, inp.failAt)
            IN  /\ daily_quotes_raw' = res.db.disk.raw
                /\ daily_quotes' = res.db.disk.norm
                /\ pending' = [pending EXCEPT !.quotes = Left(res.db)]
                /\ call' = Called("fetch_daily_quotes_one_day", d, inp, QuotesDb, res)
    /\ UNCHANGED << candidates, failed_dates, financials_raw, financials, financial_failed_dates,
                    today, pc, todo, atStart, log, last, streak, prev >>

CallFetchFinancials ==
    /\ pc = "fetch_financials_one_day"
    /\ pending = NoPending
    /\ \E d \in FetchDates : \E inp \in Served("fin", d) :
         /\ inp.failAt <= Len(inp.pages)
         /\ LET res == fetch_financials_one_day(FinConn, inp.pages, inp.failAt)
            IN  /\ financials_raw' = res.db.disk.raw
                /\ financials' = res.db.disk.norm
                /\ pending' = [pending EXCEPT !.fin = Left(res.db)]
                /\ call' = Called("fetch_financials_one_day", d, inp, FinDb, res)
    /\ UNCHANGED << candidates, daily_quotes_raw, daily_quotes, failed_dates, financial_failed_dates,
                    today, pc, todo, atStart, log, last, streak, prev >>

\* conn.commit() of the except handler of the caller.
HandlerCommit ==
    /\ pc \in FetchFns
    /\ pending # NoPending
    /\ daily_quotes_raw' = QuotesConn.raw
    /\ daily_quotes' = QuotesConn.norm
    /\ financials_raw' = FinConn.raw
    /\ financials' = FinConn.norm
    /\ pending' = NoPending
    /\ UNCHANGED << candidates, failed_dates, financial_failed_dates, today, pc, todo, atStart, log,
                    last, call, streak, prev >>

NextFetch == CallFetchOneDay \/ CallFetchDailyQuotes \/ CallFetchFinancials \/ HandlerCommit

SpecFetch == InitFetch /\ [][NextFetch]_vars

-----
(* The retry ledgers.  A row is [Date, last_error, retry_count]; the key    *)
(* column of financial_failed_dates, DisclosedDate, is written Date too.    *)

Entry(ledger, d) == { r \in ledger : r.Date = d }

\* DELETE FROM <ledger> WHERE Date = d
DeleteFailed(ledger, d) == { r \in ledger : r.Date # d }

\* UPDATE failed_dates SET retry_count = retry_count + 1, last_error = e WHERE Date = d
UpdateFailed(ledger, d, e) ==
    { IF r.Date = d
      THEN [r EXCEPT !.retry_count = @ + 1, !.last_error = e]
      ELSE r : r \in ledger }

\* The forward handler writing its row over the entry of the date.
ReplaceFailed(ledger, d, e) ==
    DeleteFailed(ledger, d) \cup { [Date |-> d, last_error |-> e, retry_count |-> 0] }

\* INSERT OR IGNORE INTO failed_dates(Date, last_error, retry_count) VALUES (d, e, 0)
InsertFailed(ledger, d, e) ==
    IF Entry(ledger, d) # {}
    THEN ledger
    ELSE ledger \cup { [Date |-> d, last_error |-> e, retry_count |-> 0] }

\* INSERT OR REPLACE ... VALUES (d, e, COALESCE((SELECT retry_count ...), 0) + 1)
log_failure(ledger, d, e) ==
    LET old == Entry(ledger, d)
        n == IF old = {} THEN 0 ELSE (CHOOSE r \in old : TRUE).retry_count
    IN  DeleteFailed(ledger, d)
            \cup { [Date |-> d, last_error |-> e, retry_count |-> n + 1] }

\* ORDER BY retry_count, Date
Before(r, s) ==
    \/ r.retry_count < s.retry_count
    \/ r.retry_count = s.retry_count /\ r.Date <= s.Date

RECURSIVE OrderBy(_)
OrderBy(rows) ==
    IF rows = {} THEN <<>>
    ELSE LET first == CHOOSE r \in rows : \A s \in rows : Before(r, s)
         IN  <<first>> \o OrderBy(rows \ {first})

\* The cutoff off by one: WHERE retry_count <= MAX_RETRY
PendingUpTo(ledger) == { r \in ledger : r.retry_count <= MAX_RETRY }

\* WHERE retry_count < MAX_RETRY
Pending(ledger) == { r \in ledger : r.retry_count < MAX_RETRY }

get_failed_dates(ledger) ==
    LET rows == OrderBy(Pending(ledger))
    IN  [ i \in 1..Len(rows) |-> rows[i].Date ]

-----------------------------------------------------------------------------
(* Watermark and calendar.                                                 *)

\* SELECT MAX(Date) FROM daily_quotes_raw; 0 stands for None.
MaxOf(S) == IF S = {} THEN 0 ELSE CHOOSE m \in S : \A x \in S : x <= m

get_latest_date(raw) == MaxOf({ r.Date : r \in raw })

get_latest_fin_date(raw) == MaxOf({ r.DisclosedDate : r \in raw })

\* The forward phase starting on the watermark itself.
StartAtLatest(latest, day, lookback) == IF latest # 0 THEN latest ELSE day - lookback

\* latest + timedelta(days=1) if latest else today - timedelta(days=lookback)
StartDate(latest, day, lookback) == IF latest # 0 THEN latest + 1 ELSE day - lookback

\* The holiday flag the remote calendar gives a date.
HolidayDivision(d) == IF d % 3 = 2 THEN "0" ELSE "1"

\* res.json()["trading_calendar"] for from = start, to = end.
TradingCalendar(start, end) ==
    [ i \in 1..(IF start <= end THEN end - start + 1 ELSE 0) |->
        [Date |-> start + i - 1, HolidayDivision |-> HolidayDivision(start + i - 1)] ]

\* A filter that drops only the full holidays.
IsNotHoliday(entry) == entry.HolidayDivision # "0"

IsTrading(entry) == entry.HolidayDivision = "1"

get_trading_days(calendar) ==
    LET open == SelectSeq(calendar, IsTrading)
    IN  [ i \in 1..Len(open) |-> open[i].Date ]

-----------------------------------------------------------------------------------------------------------------------------------------------------
(* Spec: runs of the quotes pipeline, run_update of jquants_step1_2.py.    *)

initial_days == 1

\* What the quotes and statements endpoints may do on one fetch of a run.
\* An empty day, a day with one record, a request that raises at once, a
\* request that raises after the first page has been stored, and a page
\* whose second record has a field no table declares.
RunServed(ds, d) ==
    { [pages |-> << <<>> >>, failAt |-> 0, err |-> ""],
      [pages |-> << <<Record(ds, d, "1301", "a")>> >>, failAt |-> 0, err |-> ""],
      [pages |-> << <<>> >>, failAt |-> 1, err |-> "HTTP 500"],
      [pages |-> << <<Record(ds, d, "1301", "a")>>, <<>> >>, failAt |-> 2,
       err |-> "HTTP 429"],
      [pages |-> << << Record(ds, d, "1301", "a"), Extended(Record(ds, d, "1332", "a")) >> >>,
       failAt |-> 0, err |-> "no column named Remarks"] }

\* By the time a date is retried the source may serve its record revised.
Revised(ds, d) ==
    { [pages |-> << <<Record(ds, d, "1301", "b")>> >>, failAt |-> 0, err |-> ""] }

Bump(n) == IF n < 0 THEN 1 ELSE Min(n + 1, MaxStreak)

Init12 ==
    /\ InitStore
    /\ InitHistory
    /\ today = 1 + initial_days
    /\ pc = "idle"
    /\ todo = <<>>

\* today = date.today(); for d in get_failed_dates(): ...
StartRun ==
    /\ pc = "idle"
    /\ \E t \in today..MaxDate : today' = t
    /\ todo' = get_failed_dates(failed_dates)
    /\ pc' = "retry"
    /\ atStart' = [quotes |-> failed_dates, fin |-> financial_failed_dates]
    /\ log' = <<>>
    /\ UNCHANGED << candidates, store, pending, last, call, streak, prev >>

\* The run that ends: whether it reached its end with every unit succeeding.
RunSummary(done) ==
    [ ran |-> TRUE, today |-> today, allOK |-> done /\ \A i \in DOMAIN log : log[i][3] ]

\* One iteration of the retry loop.
RetryStep ==
    /\ pc = "retry"
    /\ todo # <<>>
    /\ LET d == Head(todo)
       IN  \E inp \in RunServed("quotes", d) \cup Revised("quotes", d) :
             LET res == fetch_one_day(QuotesConn, inp.pages, inp.failAt)
                 e == inp.err
             IN  /\ last' = Unit("retry", d, res, inp, Entry(failed_dates, d))
                 /\ streak' = [streak EXCEPT !["quotes"][d] = IF res.ok THEN 0 ELSE Bump(@)]
                 /\ pending' = NoPending
                 /\ \/ \* the DELETE or the UPDATE is executed; conn.commit()
                       /\ daily_quotes_raw' = res.db.raw
                       /\ daily_quotes' = res.db.norm
                       /\ failed_dates' = IF res.ok THEN DeleteFailed(failed_dates, d)
                                          ELSE UpdateFailed(failed_dates, d, e)
                       /\ log' = Append(log, << "retry", d, res.ok >>)
                       /\ todo' = Tail(todo)
                       /\ UNCHANGED << pc, prev >>
                    \/ \* the UPDATE of the handler raises out of run_update: the
                       \* script ends and what was not committed is lost
                       /\ ~res.ok
                       /\ daily_quotes_raw' = res.db.disk.raw
                       /\ daily_quotes' = res.db.disk.norm
                       /\ failed_dates' = failed_dates
                       /\ log' = log \o << << "retry", d, FALSE >>, << "ledger", d, FALSE >> >>
                       /\ todo' = <<>>
                       /\ pc' = "idle"
                       /\ prev' = RunSummary(FALSE)
    /\ UNCHANGED << candidates, financials_raw, financials, financial_failed_dates, today,
                    atStart, call >>

\* latest = get_latest_date(); start = ...; trading_days = get_trading_days(start, today)
ResolveCalendar ==
    /\ pc = "retry"
    /\ todo = <<>>
    /\ LET latest == get_latest_date(QuotesConn.raw)
           start == StartDate(latest, today, initial_days)
       IN  \/ /\ todo' = get_trading_days(TradingCalendar(start, today))
              /\ pc' = "forward"
              /\ log' = Append(log, << "calendar", start, TRUE, latest >>)
              /\ prev' = prev
           \/ \* request_with_error_log raises: the script ends
              /\ todo' = <<>>
              /\ pc' = "idle"
              /\ log' = Append(log, << "calendar", start, FALSE, latest >>)
              /\ prev' = RunSummary(FALSE)
    /\ UNCHANGED << candidates, store, pending, today, atStart, last, call, streak >>

\* One iteration of the forward loop.
ForwardStep ==
    /\ pc = "forward"
    /\ todo # <<>>
    /\ LET d == Head(todo)
       IN  \E inp \in RunServed("quotes", d) :
             LET res == fetch_one_day(QuotesConn, inp.pages, inp.failAt)
                 e == inp.err
             IN  /\ last' = Unit("forward", d, res, inp, Entry(failed_dates, d))
                 /\ streak' = [streak EXCEPT !["quotes"][d] = IF res.ok THEN 0 ELSE Bump(@)]
                 /\ \/ \* the fetch returns: nothing more is written
                       /\ res.ok
                       /\ daily_quotes_raw' = res.db.disk.raw
                       /\ daily_quotes' = res.db.disk.norm
                       /\ pending' = [pending EXCEPT !.quotes = Left(res.db)]
                       /\ failed_dates' = failed_dates
                       /\ log' = Append(log, << "forward", d, TRUE >>)
                       /\ todo' = Tail(todo)
                       /\ UNCHANGED << pc, prev >>
                    \/ \* the INSERT OR IGNORE is executed; conn.commit()
                       /\ ~res.ok
                       /\ daily_quotes_raw' = res.db.raw
                       /\ daily_quotes' = res.db.norm
                       /\ pending' = NoPending
                       /\ failed_dates' = InsertFailed(failed_dates, d, e)
                       /\ log' = Append(log, << "forward", d, FALSE >>)
                       /\ todo' = Tail(todo)
                       /\ UNCHANGED << pc, prev >>
                    \/ \* the INSERT of the handler raises out of run_update
                       /\ ~res.ok
                       /\ daily_quotes_raw' = res.db.disk.raw
                       /\ daily_quotes' = res.db.disk.norm
                       /\ pending' = NoPending
                       /\ failed_dates' = failed_dates
                       /\ log' = log \o << << "forward", d, FALSE >>, << "ledger", d, FALSE >> >>
                       /\ todo' = <<>>
                       /\ pc' = "idle"
                       /\ prev' = RunSummary(FALSE)
    /\ UNCHANGED << candidates, financials_raw, financials, financial_failed_dates, today,
                    atStart, call >>

\* run_update returns; conn.close()
EndRun ==
    /\ pc = "forward"
    /\ todo = <<>>
    /\ pc' = "idle"
    /\ prev' = RunSummary(TRUE)
    /\ atStart' = NoLedgers
    /\ log' = <<>>
    /\ pending' = NoPending
    /\ UNCHANGED << candidates, store, today, todo, last, call, streak >>

Next12 == StartRun \/ RetryStep \/ ResolveCalendar \/ ForwardStep \/ EndRun

Spec12 == Init12 /\ [][Next12]_vars

-----------------------------------------------------------------------------
(* Runs of the full pipeline, main of jquants_step3.py.                    *)

PriceLookback == 0
FinLookback == 1

Init3 ==
    /\ InitStore
    /\ InitHistory
    /\ today = MaxDate
    /\ pc = "main"
    /\ todo = <<>>

CountOf(ledger, d) ==
    IF Entry(ledger, d) = {} THEN 0 ELSE (CHOOSE r \in Entry(ledger, d) : TRUE).retry_count

\* today = date.today(); latest_price = ...; target_days = get_trading_days(start, today)
MainStart ==
    /\ pc = "main"
    /\ \E t \in today..MaxDate : today' = t
    /\ atStart' = [quotes |-> failed_dates, fin |-> financial_failed_dates]
    /\ LET latest_price == get_latest_date(QuotesConn.raw)
           start == StartDate(latest_price, today', PriceLookback)
       IN  \/ /\ todo' = get_trading_days(TradingCalendar(start, today'))
              /\ pc' = "price"
              /\ log' = << << "calendar", start, TRUE, latest_price >> >>
              /\ prev' = prev
           \/ \* request_api raises out of main(): finally conn.close()
              /\ todo' = <<>>
              /\ pc' = "main"
              /\ log' = << << "calendar", start, FALSE, latest_price >> >>
              /\ prev' = [ran |-> TRUE, today |-> today', allOK |-> FALSE]
    /\ UNCHANGED << candidates, store, pending, last, call, streak >>

\* One iteration of "for d in target_days".
PriceStep ==
    /\ pc = "price"
    /\ todo # <<>>
    /\ LET d == Head(todo)
       IN  \E inp \in RunServed("quotes", d) :
             LET res == fetch_daily_quotes_one_day(QuotesConn, inp.pages, inp.failAt)
                 e == inp.err
             IN  /\ last' = Unit("price", d, res, inp, Entry(failed_dates, d))
                 /\ streak' = [streak EXCEPT !["quotes"][d] = IF res.ok THEN 0 ELSE Bump(@)]
                 /\ \/ \* DELETE FROM failed_dates; conn.commit()
                       /\ res.ok
                       /\ daily_quotes_raw' = res.db.raw
                       /\ daily_quotes' = res.db.norm
                       /\ pending' = [pending EXCEPT !.quotes = NoDb]
                       /\ failed_dates' = DeleteFailed(failed_dates, d)
                       /\ log' = Append(log, << "price", d, TRUE >>)
                    \/ \* log_failure: INSERT OR REPLACE; conn.commit()
                       /\ ~res.ok
                       /\ CountOf(failed_dates, d) < MaxCount
                       /\ daily_quotes_raw' = res.db.raw
                       /\ daily_quotes' = res.db.norm
                       /\ pending' = [pending EXCEPT !.quotes = NoDb]
                       /\ failed_dates' = log_failure(failed_dates, d, e)
                       /\ log' = Append(log, << "price", d, FALSE >>)
                    \/ \* log_failure: the INSERT raises and is only printed; no commit
                       /\ ~res.ok
                       /\ daily_quotes_raw' = res.db.disk.raw
                       /\ daily_quotes' = res.db.disk.norm
                       /\ pending' = [pending EXCEPT !.quotes = Left(res.db)]
                       /\ failed_dates' = failed_dates
                       /\ log' = log \o << << "price", d, FALSE >>, << "ledger", d, FALSE >> >>
    /\ todo' = Tail(todo)
    /\ UNCHANGED << candidates, financials_raw, financials, financial_failed_dates, today, pc,
                    atStart, call, prev >>

\* latest_fin = get_latest_fin_date(); d = ...; the dates "while d <= today" visits
FinStart ==
    /\ pc = "price"
    /\ todo = <<>>
    /\ LET latest_fin == get_latest_fin_date(FinConn.raw)
           d == StartDate(latest_fin, today, FinLookback)
       IN  /\ todo' = [ i \in 1..(IF d <= today THEN today - d + 1 ELSE 0) |-> d + i - 1 ]
           /\ log' = Append(log, << "finstart", d, TRUE, latest_fin >>)
    /\ pc' = "fin"
    /\ UNCHANGED << candidates, store, pending, today, atStart, last, call, streak, prev >>

\* One iteration of "while d <= today".  A commit writes every pending row
\* of the connection, those the quotes phase left too.
FinStep ==
    /\ pc = "fin"
    /\ todo # <<>>
    /\ LET d == Head(todo)
       IN  \E inp \in RunServed("fin", d) :
             LET res == fetch_financials_one_day(FinConn, inp.pages, inp.failAt)
                 e == inp.err
             IN  /\ last' = Unit("fin", d, res, inp, Entry(financial_failed_dates, d))
                 /\ streak' = [streak EXCEPT !["fin"][d] = IF res.ok THEN 0 ELSE Bump(@)]
                 /\ \/ \* DELETE FROM financial_failed_dates; conn.commit()
                       /\ res.ok
                       /\ financials_raw' = res.db.raw
                       /\ financials' = res.db.norm
                       /\ daily_quotes_raw' = QuotesConn.raw
                       /\ daily_quotes' = QuotesConn.norm
                       /\ pending' = NoPending
                       /\ financial_failed_dates' = DeleteFailed(financial_failed_dates, d)
                       /\ log' = Append(log, << "fin", d, TRUE >>)
                    \/ \* INSERT OR REPLACE INTO financial_failed_dates; conn.commit()
                       /\ ~res.ok
                       /\ CountOf(financial_failed_dates, d) < MaxCount
                       /\ financials_raw' = res.db.raw
                       /\ financials' = res.db.norm
                       /\ daily_quotes_raw' = QuotesConn.raw
                       /\ daily_quotes' = QuotesConn.norm
                       /\ pending' = NoPending
                       /\ financial_failed_dates' = log_failure(financial_failed_dates, d, e)
                       /\ log' = Append(log, << "fin", d, FALSE >>)
                    \/ \* the INSERT raises: except: pass; no commit
                       /\ ~res.ok
                       /\ financials_raw' = res.db.disk.raw
                       /\ financials' = res.db.disk.norm
                       /\ daily_quotes_raw' = IF res.commits > 0 THEN QuotesConn.raw
                                              ELSE daily_quotes_raw
                       /\ daily_quotes' = IF res.commits > 0 THEN QuotesConn.norm
                                          ELSE daily_quotes
                       /\ pending' = [ quotes |-> IF res.commits > 0 THEN NoDb
                                                  ELSE pending.quotes,
                                       fin |-> Left(res.db) ]
                       /\ financial_failed_dates' = financial_failed_dates
                       /\ log' = log \o << << "fin", d, FALSE >>, << "ledger", d, FALSE >> >>
    /\ todo' = Tail(todo)
    /\ UNCHANGED << candidates, failed_dates, today, pc, atStart, call, prev >>

\* main returns; finally: conn.close() drops what was not committed
MainEnd ==
    /\ pc = "fin"
    /\ todo = <<>>
    /\ pc' = "main"
    /\ prev' = RunSummary(TRUE)
    /\ atStart' = NoLedgers
    /\ log' = <<>>
    /\ pending' = NoPending
    /\ UNCHANGED << candidates, store, today, todo, last, call, streak >>

Next3 == MainStart \/ PriceStep \/ FinStart \/ FinStep \/ MainEnd

Spec3 == Init3 /\ [][Next3]_vars

-----
(* Spec: either script is the one deployed; its runs follow one another.   *)

Init == Init12 \/ Init3

Next == StartRun \/ RetryStep \/ ResolveCalendar \/ ForwardStep \/ EndRun
            \/ MainStart \/ PriceStep \/ FinStart \/ FinStep \/ MainEnd

Spec == Init /\ [][Next]_vars

-----------------------------------------------------------------------------------------------------------------------------------------------------
(* SpecScreen: select_stocks.py run on a store that ingestion has filled.  *)
(* The statements endpoint gives every figure as text; the quotes endpoint *)
(* gives numbers.  The listing is kept as the set of its lines: its order, *)
(* by score, is not part of the state.                                     *)

ScreenCodes == {"1301", "1332"}
ScreenDates == {1, 2}

\* The figures a statement may carry.
Fundamentals ==
    { [Profit |-> "100", Equity |-> "1000", EarningsPerShare |-> "4",
       ForecastEarningsPerShare |-> "5", NetSales |-> "100", ForecastNetSales |-> "110"],
      [Profit |-> "100", Equity |-> "1000", EarningsPerShare |-> "4",
       ForecastEarningsPerShare |-> "5", NetSales |-> "100", ForecastNetSales |-> "96"],
      [Profit |-> "50", Equity |-> "1000", EarningsPerShare |-> "4",
       ForecastEarningsPerShare |-> "5", NetSales |-> "100", ForecastNetSales |-> "110"],
      [Profit |-> "", Equity |-> "1000", EarningsPerShare |-> "",
       ForecastEarningsPerShare |-> "5", NetSales |-> "100", ForecastNetSales |-> "110"],
      [Profit |-> "100", Equity |-> "1000", EarningsPerShare |-> "4",
       ForecastEarningsPerShare |-> "5", NetSales |-> "0", ForecastNetSales |-> "110"] }

\* The close and the volume a quote may carry.
Prices ==
    { [Close |-> 50, Volume |-> 200000],
      [Close |-> 150, Volume |-> 200000],
      [Close |-> 50, Volume |-> 50000] }

FinancialRows ==
    { [LocalCode |-> c, DisclosedDate |-> d] @@ f :
        c \in ScreenCodes, d \in ScreenDates, f \in Fundamentals }

QuoteRows ==
    { [Code |-> c, Date |-> d] @@ q : c \in ScreenCodes, d \in ScreenDates, q \in Prices }

\* CAST(x AS REAL) of the texts above.
Cast ==
    ("" :> 0) @@ ("0" :> 0) @@ ("4" :> 4) @@ ("5" :> 5) @@ ("50" :> 50) @@ ("96" :> 96)
    @@ ("100" :> 100) @@ ("110" :> 110) @@ ("1000" :> 1000)

\* A store with statements of each entity on any dates, and at most one
\* quote per entity.
InitScreen ==
    /\ failed_dates = {}
    /\ financial_failed_dates = {}
    /\ daily_quotes_raw = {}
    /\ financials_raw = {}
    /\ pending = NoPending
    /\ InitHistory
    /\ today = 2
    /\ todo = <<>>
    /\ pc = "select_stocks"
    /\ financials \in SUBSET FinancialRows
    /\ UniqueKey(financials, "DisclosedDate", "LocalCode")
    /\ daily_quotes \in SUBSET QuoteRows
    /\ Cardinality({ q.Code : q \in daily_quotes }) = Cardinality(daily_quotes)

\* SELECT MAX(Date) FROM daily_quotes; SELECT MAX(DisclosedDate) FROM financials
latest_price_date == MaxOf({ q.Date : q \in daily_quotes })
latest_fin_date == MaxOf({ f.DisclosedDate : f \in financials })

\* The two CTEs of the query.
latest_price == { q \in daily_quotes : q.Date = latest_price_date }
latest_fin == { f \in financials : f.DisclosedDate = latest_fin_date }

\* x IS NOT NULL AND x != ''  (the rows of the model carry every column)
Filled(x) == x # ""

\* The WHERE clause, on exact fractions: a / b >= 0.08 is 100 a >= 8 b for b > 0.
Where(f, p) ==
    /\ Filled(f.Profit) /\ Filled(f.Equity)
    /\ Cast[f.Profit] > 0
    /\ Cast[f.Equity] > 0
    /\ Filled(f.ForecastEarningsPerShare)
    /\ Cast[f.ForecastEarningsPerShare] > 0
    /\ Filled(f.NetSales) /\ Filled(f.ForecastNetSales)
    /\ 100 * Cast[f.ForecastNetSales] > 95 * Cast[f.NetSales]
    /\ p.Volume > 10000
    /\ 100 * Cast[f.Profit] >= 8 * Cast[f.Equity]
    /\ 5 * Cast[f.ForecastEarningsPerShare] <= p.Close
    /\ p.Close <= 40 * Cast[f.ForecastEarningsPerShare]

\* FROM latest_fin f JOIN latest_price p ON f.LocalCode = p.Code WHERE ...
rows ==
    { r \in { [f |-> f, p |-> p] : f \in latest_fin, p \in latest_price } :
        r.f.LocalCode = r.p.Code /\ Where(r.f, r.p) }

\* r["forecast_net_sales"] / r["net_sales"] raises ZeroDivisionError.
ScoringRaises(r) == Cast[r.f.NetSales] = 0

\* The whole script: the query, the scoring loop, the listing.
SelectStocks ==
    /\ pc = "select_stocks"
    /\ IF \E r \in rows : ScoringRaises(r)
       THEN /\ pc' = "raised"
            /\ candidates' = {}
       ELSE /\ pc' = "listed"
            /\ candidates' = rows
    /\ UNCHANGED << store, pending, today, todo, atStart, log, last, call, streak, prev >>

NextScreen == SelectStocks

SpecScreen == InitScreen /\ [][NextScreen]_vars

-----------------------------------------------------------------------------
(* SpecCalendar: get_trading_days called on its own, on every calendar the *)
(* remote service may answer with.                                         *)

\* The values of HolidayDivision: holiday, business day, half-day session.
HolidayDivisions == {"0", "1", "2"}

CalendarEntries == [Date : Dates, HolidayDivision : HolidayDivisions]

\* res.json()["trading_calendar"]: one entry a date at most, in any order.
CalendarResponses ==
    UNION { { cal \in [1..n -> CalendarEntries] :
                \A i \in 1..n : \A j \in 1..n : i # j => cal[i].Date # cal[j].Date } :
            n \in 0..Cardinality(Dates) }

InitCalendar ==
    /\ InitStore
    /\ InitHistory
    /\ today = MaxDate
    /\ todo = <<>>
    /\ pc = "get_trading_days"

\* trading_days = get_trading_days(start, today)
CallGetTradingDays ==
    /\ pc = "get_trading_days"
    /\ \/ \E cal \in CalendarResponses :
             /\ call' = [NoCall EXCEPT !.fn = "get_trading_days", !.pages = cal,
                                       !.ok = TRUE, !.requests = 1]
             /\ todo' = get_trading_days(cal)
             /\ pc' = "returned"
       \/ \* request_with_error_log raises
          /\ call' = [NoCall EXCEPT !.fn = "get_trading_days", !.raised = "transport",
                                    !.requests = 1]
          /\ todo' = todo
          /\ pc' = "raised"
    /\ UNCHANGED << candidates, store, pending, today, atStart, log, last, streak, prev >>

NextCalendar == CallGetTradingDays

SpecCalendar == InitCalendar /\ [][NextCalendar]_vars

-----------------------------------------------------------------------------
(* Reading the history.                                                    *)

DataSets == {"quotes", "fin"}

LedgerOf(ds) == IF ds = "quotes" THEN failed_dates ELSE financial_failed_dates

\* The dataset a phase of a run works on.
DataSetOf(phase) == IF phase = "fin" THEN "fin" ELSE "quotes"

FetchPhases == {"retry", "forward", "price", "fin"}
ForwardPhases == {"forward", "price", "fin"}

\* The current run has visited every date of its loops.
RunOver == pc \in {"forward", "fin"} /\ todo = <<>>

\* The positions of the log where date d of dataset ds was fetched.
FetchesOf(ds, d) ==
    { i \in DOMAIN log :
        log[i][1] \in FetchPhases /\ DataSetOf(log[i][1]) = ds /\ log[i][2] = d }

-----------------------------------------------------------------------------
(* C1: after k >= 1 consecutive failed fetches of a date its ledger entry  *)
(* has retry_count = k, and after a successful fetch it has no entry.      *)
C1_RetryMonotonicity ==
    \A ds \in DataSets : \A d \in Dates :
        LET k == streak[ds][d]
            e == Entry(LedgerOf(ds), d)
        IN  /\ (k >= 1 /\ k < MaxStreak) =>
                   (e # {} /\ \A r \in e : r.retry_count = k)
            /\ k = 0 => e = {}

(* C2: a failed fetch creates the entry with retry_count = 0 when the date *)
(* had none, and otherwise adds one to retry_count and replaces last_error,*)
(* in every phase.                                                         *)
C2_RecordFailure ==
    (last.phase # "none" /\ ~last.ok) =>
        LET now == Entry(LedgerOf(DataSetOf(last.phase)), last.date)
        IN  IF last.entry = {}
            THEN now = { [Date |-> last.date, last_error |-> last.err, retry_count |-> 0] }
            ELSE now = { [r EXCEPT !.retry_count = @ + 1, !.last_error = last.err] :
                           r \in last.entry }

(* C3: after a successful fetch of a date, in any phase, the ledger has no *)
(* entry for it.                                                           *)
C3_SuccessClearsEntry ==
    (last.phase # "none" /\ last.ok) =>
        Entry(LedgerOf(DataSetOf(last.phase)), last.date) = {}

(* C4: a date whose entry is at retry_count = MAX_RETRY when a run starts  *)
(* is not fetched by that run, in no phase, and its entry stays.           *)
C4_NoFetchAfterCutoff ==
    \A ds \in DataSets : \A r \in atStart[ds] :
        r.retry_count >= MAX_RETRY =>
            /\ FetchesOf(ds, r.Date) = {}
            /\ Entry(LedgerOf(ds), r.Date) # {}

(* C5: when a run is over, every date that was in a ledger below the       *)
(* cutoff when the run started has been fetched by it in a retry phase,    *)
(* before the calendar was resolved and before any forward fetch.          *)
C5_PendingRetried ==
    RunOver =>
        \A ds \in DataSets : \A r \in atStart[ds] :
            r.retry_count < MAX_RETRY =>
                \E i \in FetchesOf(ds, r.Date) :
                    /\ log[i][1] = "retry"
                    /\ \A j \in DOMAIN log :
                          log[j][1] \in ForwardPhases \cup {"calendar", "finstart"} => i < j

(* C6: get_failed_dates returns exactly the dates of the entries with      *)
(* retry_count < MAX_RETRY, each once, by ascending retry_count and then   *)
(* ascending date; an entry at MAX_RETRY is left out and left in the       *)
(* ledger by the call.                                                     *)
C6_PendingRetries ==
    LET res == get_failed_dates(failed_dates)
        below == { r \in failed_dates : r.retry_count < MAX_RETRY }
        count(d) == CountOf(failed_dates, d)
    IN  /\ Range(res) = { r.Date : r \in below }
        /\ Len(res) = Cardinality(below)
        /\ \A i \in DOMAIN res : \A j \in DOMAIN res :
               i < j => \/ count(res[i]) < count(res[j])
                        \/ count(res[i]) = count(res[j]) /\ res[i] < res[j]
        /\ \A r \in failed_dates : r.retry_count = MAX_RETRY => r.Date \notin Range(res)
        /\ (pc = "retry" /\ log = <<>>) =>
               (todo = res /\ failed_dates = atStart.quotes)

\* The call has just been made with one entry at the cutoff and one below it.
C6_Witness ==
    /\ pc = "retry"
    /\ log = <<>>
    /\ \E r \in failed_dates : r.retry_count = MAX_RETRY
    /\ Len(todo) = 1

(* C7: when the previous run ended with every unit succeeding and today is *)
(* the same, the current run fetches no date in a forward phase.           *)
C7_RerunFetchesNothing ==
    (prev.ran /\ prev.allOK /\ prev.today = today) =>
        \A i \in DOMAIN log : log[i][1] \notin ForwardPhases

-----------------------------------------------------------------------------
(* Reading the last direct call of a fetcher.                              *)

DateCol(fn) == IF fn = "fetch_financials_one_day" THEN "DisclosedDate" ELSE "Date"
CodeCol(fn) == IF fn = "fetch_financials_one_day" THEN "LocalCode" ELSE "Code"

\* The tables the fetcher of the last call writes, as they are now.
CallDb == IF call.fn = "fetch_financials_one_day" THEN FinDb ELSE QuotesDb

\* Every record the endpoint served to the last call, in order.
CallRecords == Flatten(call.pages)

CallKeys == { << r[DateCol(call.fn)], r[CodeCol(call.fn)] >> : r \in Range(CallRecords) }

\* The rows the records of the last call make in the archive and the normalized table.
CallRawRows ==
    { IF call.fn = "fetch_financials_one_day"
      THEN [DisclosedDate |-> r["DisclosedDate"], LocalCode |-> r["LocalCode"],
            payload |-> Compress(r)]
      ELSE [Date |-> r["Date"], Code |-> r["Code"], payload |-> Compress(r)] :
      r \in Range(CallRecords) }

CallNormRows ==
    { IF call.fn = "fetch_financials_one_day" THEN FinRow(r) ELSE r :
      r \in Range(CallRecords) }

(* C8: the archive and the normalized table hold at most one row per       *)
(* (date, entity_id), and a fetch whose records are all stored already     *)
(* leaves both tables as they were.                                        *)
C8_OneRowPerKey ==
    /\ UniqueKey(daily_quotes_raw, "Date", "Code")
    /\ UniqueKey(daily_quotes, "Date", "Code")
    /\ UniqueKey(financials_raw, "DisclosedDate", "LocalCode")
    /\ UniqueKey(financials, "DisclosedDate", "LocalCode")
    /\ ( /\ call.fn # "none"
         /\ CallKeys \subseteq KeysOf(call.before.raw, DateCol(call.fn), CodeCol(call.fn))
         /\ CallKeys \subseteq KeysOf(call.before.norm, DateCol(call.fn), CodeCol(call.fn)) )
       => CallDb = call.before

\* A fetch came back with a stored key under another payload, on two pages.
C8_Witness ==
    /\ call.fn # "none"
    /\ call.ok
    /\ Len(call.pages) = 2
    /\ call.requests = 2
    /\ CallKeys # {}
    /\ CallKeys \subseteq KeysOf(call.before.raw, DateCol(call.fn), CodeCol(call.fn))
    /\ ~(CallRawRows \subseteq call.before.raw)
    /\ CallDb = call.before

(* C9: a fetch returns normally only after a response without a cursor: it *)
(* has then made one request per page the endpoint serves.                 *)
C9_DrainsAllPages ==
    (call.fn # "none" /\ call.ok) => call.requests = Len(call.pages)

(* C10: a fetch that returns normally over pages whose records have        *)
(* pairwise distinct keys, none of them stored, adds exactly one archive   *)
(* row and one normalized row per record of every page.                    *)
C10_PaginationComplete ==
    ( /\ call.fn # "none"
      /\ call.ok
      /\ Cardinality(CallKeys) = Len(CallRecords)
      /\ CallKeys \cap KeysOf(call.before.raw, DateCol(call.fn), CodeCol(call.fn)) = {}
      /\ CallKeys \cap KeysOf(call.before.norm, DateCol(call.fn), CodeCol(call.fn)) = {} )
    => /\ CallDb.raw = call.before.raw \cup CallRawRows
       /\ CallDb.norm = call.before.norm \cup CallNormRows
       /\ Cardinality(CallDb.raw) = Cardinality(call.before.raw) + Len(CallRecords)
       /\ Cardinality(CallDb.norm) = Cardinality(call.before.norm) + Len(CallRecords)

-----------------------------------------------------------------------------
(* C11: after every commit the archive and the normalized table of a       *)
(* dataset hold the same (date, entity_id) keys, also after a write that   *)
(* raised part-way through a page and the recording of that failure.       *)
C11_SameKeys ==
    /\ KeysOf(daily_quotes_raw, "Date", "Code") = KeysOf(daily_quotes, "Date", "Code")
    /\ KeysOf(financials_raw, "DisclosedDate", "LocalCode")
           = KeysOf(financials, "DisclosedDate", "LocalCode")

-----------------------------------------------------------------------------
(* Reading a direct call that a request made raise.                        *)

\* The records of the pages served before request n.
RECURSIVE RecordsBefore(_, _)
RecordsBefore(pages, n) ==
    IF n <= 1 THEN <<>> ELSE RecordsBefore(pages, n - 1) \o pages[n - 1]

EarlierRecords == Range(RecordsBefore(call.pages, call.failAt))

EarlierKeys == { << r[DateCol(call.fn)], r[CodeCol(call.fn)] >> : r \in EarlierRecords }

\* The archive and the normalized rows of the records of the earlier pages.
EarlierRawRows ==
    { IF call.fn = "fetch_financials_one_day"
      THEN [DisclosedDate |-> r["DisclosedDate"], LocalCode |-> r["LocalCode"],
            payload |-> Compress(r)]
      ELSE [Date |-> r["Date"], Code |-> r["Code"], payload |-> Compress(r)] :
      r \in EarlierRecords }

EarlierNormRows ==
    { IF call.fn = "fetch_financials_one_day" THEN FinRow(r) ELSE r : r \in EarlierRecords }

-----------------------------------------------------------------------------
(* Reading the log of a run.                                               *)

\* The entry that opens the forward phase a fetch of the given phase is in.
OpenerOf(phase) == IF phase = "fin" THEN "finstart" ELSE "calendar"

\* The lookback of the forward phase a log entry opens.
LookbackOf(opener) ==
    IF opener = "finstart" THEN FinLookback
    ELSE IF pc \in {"main", "price", "fin"} THEN PriceLookback
    ELSE initial_days

\* The dates the run has fetched in a phase, in the order of the fetches.
RECURSIVE DatesIn(_, _)
DatesIn(entries, phase) ==
    IF entries = <<>> THEN <<>>
    ELSE IF Head(entries)[1] = phase
         THEN << Head(entries)[2] >> \o DatesIn(Tail(entries), phase)
         ELSE DatesIn(Tail(entries), phase)

\* The start a phase of the run was opened with; 0 when it was not opened.
StartOf(opener) ==
    IF \E i \in DOMAIN log : log[i][1] = opener
    THEN log[CHOOSE i \in DOMAIN log : log[i][1] = opener][2]
    ELSE 0

\* start, start + 1, ..., end
Span(start, end) ==
    [ i \in 1..(IF start <= end THEN end - start + 1 ELSE 0) |-> start + i - 1 ]

(* C13: a forward phase starts at watermark + 1, or at today minus the     *)
(* lookback when the archive is empty, and fetches no date at or below the *)
(* watermark it started from, and no date twice.                           *)
C13_NothingBelowWatermark ==
    \A i \in DOMAIN log : \A j \in DOMAIN log :
        ( /\ log[i][1] \in {"calendar", "finstart"}
          /\ log[j][1] \in ForwardPhases
          /\ OpenerOf(log[j][1]) = log[i][1] )
        => /\ i < j
           /\ log[i][2] = IF log[i][4] # 0 THEN log[i][4] + 1
                          ELSE today - LookbackOf(log[i][1])
           /\ log[j][2] >= log[i][2]
           /\ log[j][2] > log[i][4]
           /\ \A k \in DOMAIN log :
                  (j < k /\ log[k][1] = log[j][1]) => log[j][2] < log[k][2]

\* A forward phase that started from a watermark has fetched a date.
C13_Witness ==
    \E i \in DOMAIN log : \E j \in DOMAIN log :
        /\ log[i][1] \in {"calendar", "finstart"}
        /\ log[i][4] # 0
        /\ log[j][1] \in ForwardPhases
        /\ OpenerOf(log[j][1]) = log[i][1]

(* C14: a run visits every pending date in its retry phase and every date  *)
(* of its forward phases, in ascending order, whatever the fetches did; it *)
(* ends early only when the calendar cannot be resolved.                   *)
C14_RunNeverAborts ==
    /\ pc = "retry" =>
           DatesIn(log, "retry") \o todo = get_failed_dates(atStart.quotes)
    /\ pc = "forward" =>
           /\ DatesIn(log, "retry") = get_failed_dates(atStart.quotes)
           /\ DatesIn(log, "forward") \o todo
                  = get_trading_days(TradingCalendar(StartOf("calendar"), today))
    /\ pc = "price" =>
           DatesIn(log, "price") \o todo
               = get_trading_days(TradingCalendar(StartOf("calendar"), today))
    /\ pc = "fin" =>
           /\ DatesIn(log, "price")
                  = get_trading_days(TradingCalendar(StartOf("calendar"), today))
           /\ DatesIn(log, "fin") \o todo = Span(StartOf("finstart"), today)
    /\ (pc \in {"idle", "main"} /\ log # <<>>) => log[Len(log)][1] = "calendar"

(* C15: when the calendar request of the full pipeline raises, the run     *)
(* still goes through its financial-statements phase and fetches every     *)
(* calendar date of its range.                                             *)
C15_FinancialsWithoutCalendar ==
    (pc = "main" /\ log # <<>> /\ log[1][1] = "calendar" /\ ~log[1][3]) =>
        /\ \E i \in DOMAIN log : log[i][1] = "finstart"
        /\ DatesIn(log, "fin") = Span(StartOf("finstart"), today)

(* C16: when the write of the ledger entry of a failed date raises, the    *)
(* run goes on with the next date.                                         *)
C16_LedgerFailureNotRaised ==
    (log # <<>> /\ log[Len(log)][1] = "ledger") => pc \in {"retry", "forward", "price", "fin"}

(* C17: no step removes an archive row or changes the payload stored for a *)
(* key, and the maximum archived date of a dataset never decreases.        *)
C17_ArchiveAppendOnly ==
    [][ /\ daily_quotes_raw \subseteq daily_quotes_raw'
        /\ financials_raw \subseteq financials_raw'
        /\ UniqueKey(daily_quotes_raw', "Date", "Code")
        /\ UniqueKey(financials_raw', "DisclosedDate", "LocalCode")
        /\ get_latest_date(daily_quotes_raw') >= get_latest_date(daily_quotes_raw)
        /\ get_latest_fin_date(financials_raw') >= get_latest_fin_date(financials_raw) ]_vars

\* A retry was served the record of a stored key under another payload.
C17_Witness ==
    /\ last.phase = "retry"
    /\ last.ok
    /\ last.got = << << Record("quotes", last.date, "1301", "b") >> >>
    /\ [Date |-> last.date, Code |-> "1301",
        payload |-> Compress(Record("quotes", last.date, "1301", "a"))] \in daily_quotes_raw

(* C18: the value a fetch returns is the number of rows the call added to  *)
(* the archive for its date.                                               *)
C18_ReturnsRowsAdded ==
    (call.fn # "none" /\ call.ok) =>
        call.saved = Cardinality({ r \in CallDb.raw \ call.before.raw :
                                      r[DateCol(call.fn)] = call.date })

-----------------------------------------------------------------------------
(* Reading the listing of select_stocks.py.                                *)

\* The most recent statement of each entity.
MostRecent ==
    { f \in financials :
        \A g \in financials : g.LocalCode = f.LocalCode => g.DisclosedDate <= f.DisclosedDate }

(* C19: the listing is made of the most recent statement of every entity,  *)
(* joined with its quote of the latest price date.                         *)
C19_LatestPerEntity ==
    pc = "listed" =>
        candidates = { r \in { [f |-> f, p |-> p] : f \in MostRecent, p \in latest_price } :
                         r.f.LocalCode = r.p.Code /\ Where(r.f, r.p) }

(* C20: every listed candidate has ROE >= 8%, forecast EPS > 0, PER        *)
(* between 5 and 20, forecast net sales above net sales, and a volume      *)
(* above 100,000.                                                          *)
C20_DocumentedFilters ==
    \A r \in candidates :
        /\ 100 * Cast[r.f.Profit] >= 8 * Cast[r.f.Equity]
        /\ Cast[r.f.ForecastEarningsPerShare] > 0
        /\ 5 * Cast[r.f.ForecastEarningsPerShare] <= r.p.Close
        /\ r.p.Close <= 20 * Cast[r.f.ForecastEarningsPerShare]
        /\ Cast[r.f.ForecastNetSales] > Cast[r.f.NetSales]
        /\ r.p.Volume > 100000

-----------------------------------------------------------------------------
(* Reading a call of get_trading_days.                                     *)

\* The positions of the response whose entry is a business day.
TradingPositions(cal) == { i \in DOMAIN cal : cal[i].HolidayDivision = "1" }

\* The position of a date in the response.
PositionOf(cal, d) == CHOOSE i \in DOMAIN cal : cal[i].Date = d

(* C21: get_trading_days returns exactly the dates of the entries of the   *)
(* response whose HolidayDivision is "1", once each and in the order of    *)
(* the response; an entry with any other value is left out.                *)
C21_OnlyTradingDays ==
    (call.fn = "get_trading_days" /\ call.ok) =>
        LET cal == call.pages
        IN  /\ Range(todo) = { cal[i].Date : i \in TradingPositions(cal) }
            /\ Len(todo) = Cardinality(TradingPositions(cal))
            /\ \A i \in DOMAIN todo : \A j \in DOMAIN todo :
                   i < j => PositionOf(cal, todo[i]) < PositionOf(cal, todo[j])
            /\ \A i \in DOMAIN cal :
                   cal[i].HolidayDivision # "1" => cal[i].Date \notin Range(todo)

\* A response out of date order with a holiday, a half-day session and two
\* business days has been resolved.
C21_Witness ==
    /\ call.fn = "get_trading_days"
    /\ call.ok
    /\ \E i \in DOMAIN call.pages : call.pages[i].HolidayDivision = "2"
    /\ todo = << 3, 1 >>

(* C22: every call of get_trading_days a run makes has start <= today,    *)
(* whatever the store holds when the run starts, a watermark equal to      *)
(* today included.                                                         *)
C22_StartNotAfterToday ==
    \A i \in DOMAIN log : log[i][1] = "calendar" => log[i][2] <= today

(* C23: within one run of run_update no date is fetched more than once: a *)
(* date fetched in the retry phase is not fetched again in the forward     *)
(* phase of the same run.                                                  *)
C23_FetchedOncePerRun ==
    \A d \in Dates : Cardinality(FetchesOf("quotes", d)) <= 1

(* C24: over any sequence of runs of the quotes pipeline every entry of   *)
(* failed_dates has 0 <= retry_count <= MAX_RETRY, and the retry_count of  *)
(* an entry never decreases while the entry exists.                        *)
C24_RetryCountBounded ==
    /\ [](\A r \in failed_dates : r.retry_count >= 0 /\ r.retry_count <= MAX_RETRY)
    /\ [][ \A r \in failed_dates : \A n \in failed_dates' :
               n.Date = r.Date => n.retry_count >= r.retry_count ]_vars

\* A forward fetch has just failed on a date whose entry had been counted up
\* and whose retry in the same run failed too, while an entry is at the cutoff.
C24_Witness ==
    /\ pc = "forward"
    /\ last.phase = "forward"
    /\ ~last.ok
    /\ \E r \in last.entry : r.retry_count >= 1
    /\ \E i \in DOMAIN log : log[i] = << "retry", last.date, FALSE >>
    /\ \E r \in failed_dates : r.retry_count = MAX_RETRY

=============================================================================
